---- MODULE Spec2Model ----
(***************************************************************************)
(* Amortization engine of mortgage-calc.py: payment solver, schedule       *)
(* builders, payoff solver, combiner and payoff date.                      *)
(*                                                                         *)
(* Numbers.  The program computes on IEEE doubles.  Here every number is   *)
(* an exact rational (sign, numerator, denominator) over arbitrary-size    *)
(* naturals, so that (1 + r)^n for a term of 12 months and more is         *)
(* computed without loss.  What the doubles add to the exact value is      *)
(* modelled in two places only:                                            *)
(*   - a division by zero raises ZeroDivisionError (Python floats);        *)
(*   - np.log is total on doubles: log(0) = -inf, log(x < 0) = nan; the    *)
(*     quotient of two logarithms that is an exact integer k in the reals  *)
(*     lands on either side of k in doubles, so its ceiling is k or k + 1: *)
(*     the variable fp is the side, unknown but fixed.                     *)
(***************************************************************************)
EXTENDS Integers, Sequences, FiniteSets, TLC

(***************************************************************************)
(* Naturals of arbitrary size: little-endian sequences of limbs in         *)
(* 0 .. Base-1 with no leading zero limb; zero is the empty sequence.      *)
(* Sums and differences resolve their carries by lookahead, so that no     *)
(* operator recurses over the limbs.                                       *)
(***************************************************************************)
Base == 100 * 100

Max(S) == CHOOSE x \in S : \A y \in S : y <= x

Min(S) == CHOOSE x \in S : \A y \in S : x <= y

At(s, i) == IF i >= 1 /\ i <= Len(s) THEN s[i] ELSE 0

\* the sequence f as a tuple of computed limbs
Tup(f) == f \o <<>>

BStrip(s) ==
    IF s = <<>> THEN <<>>
    ELSE IF s[Len(s)] # 0 THEN s
    ELSE SubSeq(s, 1, Max({0} \cup {i \in 1..Len(s) : s[i] # 0}))

RECURSIVE BFromInt(_)
BFromInt(i) == IF i = 0 THEN <<>> ELSE <<i % Base>> \o BFromInt(i \div Base)

BCmp(a, b) ==
    IF Len(a) # Len(b) THEN (IF Len(a) < Len(b) THEN -1 ELSE 1)
    ELSE IF a = b THEN 0
    ELSE IF a[Max({i \in 1..Len(a) : a[i] # b[i]})]
              < b[Max({i \in 1..Len(a) : a[i] # b[i]})] THEN -1
    ELSE 1

\* column i of s receives a carry: the nearest column below it that is not
\* Base - 1 overflows
CarryIn(s, i) ==
    LET g == {j \in 1..(i - 1) : s[j] # Base - 1}
    IN  g # {} /\ s[Max(g)] >= Base

\* the columns s, each in 0 .. 2 * Base - 2, with their carries resolved
BCarry(s) ==
    BStrip(IF \A i \in 1..Len(s) : s[i] < Base THEN s
           ELSE Tup([i \in 1..Len(s) |->
                       (s[i] + (IF CarryIn(s, i) THEN 1 ELSE 0)) % Base]))

BAdd(a, b) ==
    IF a = <<>> THEN b
    ELSE IF b = <<>> THEN a
    ELSE BCarry(Tup([i \in 1..(Max({Len(a), Len(b)}) + 1) |-> At(a, i) + At(b, i)]))

\* column i of d lends: the nearest nonzero column below it is negative
BorrowIn(d, i) ==
    LET g == {j \in 1..(i - 1) : d[j] # 0}
    IN  g # {} /\ d[Max(g)] < 0

\* the columns d, each in -(Base-1) .. Base-1, with their borrows resolved
BBorrow(d) ==
    BStrip(IF \A i \in 1..Len(d) : d[i] >= 0 THEN d
           ELSE Tup([i \in 1..Len(d) |->
                       (d[i] + Base - (IF BorrowIn(d, i) THEN 1 ELSE 0)) % Base]))

\* a - b for a >= b
BSub(a, b) ==
    IF b = <<>> THEN a
    ELSE BBorrow(Tup([i \in 1..Len(a) |-> a[i] - At(b, i)]))

\* sum over i in lo .. hi of the low (part = 0) or high (part = 1) half of
\* the limb product a[i] * b[k + 1 - i] of column k
RECURSIVE ColSum(_, _, _, _, _, _)
ColSum(a, b, k, lo, hi, part) ==
    IF lo > hi THEN 0
    ELSE IF lo = hi
    THEN (IF part = 0 THEN (a[lo] * b[k + 1 - lo]) % Base
          ELSE (a[lo] * b[k + 1 - lo]) \div Base)
    ELSE ColSum(a, b, k, lo, (lo + hi) \div 2, part)
         + ColSum(a, b, k, (lo + hi) \div 2 + 1, hi, part)

\* the columns t, each below 4 * Base, as a number
BSplit(t) ==
    BAdd(Tup([k \in 1..Len(t) |-> t[k] % Base]),
         <<0>> \o [k \in 1..Len(t) |-> t[k] \div Base])

\* the product from the column sums lo and hi of its half limb products:
\* column k holds lo[k] and hi[k - 1], each split at Base
BMulCols(lo, hi) ==
    BSplit(Tup([k \in 1..(Len(lo) + 2) |->
                  (At(lo, k) % Base) + (At(lo, k - 1) \div Base)
                  + (At(hi, k - 1) % Base) + (At(hi, k - 2) \div Base)]))

BMul(a, b) ==
    IF a = <<>> \/ b = <<>> THEN <<>>
    ELSE BMulCols(Tup([k \in 1..(Len(a) + Len(b) - 1) |->
                     ColSum(a, b, k, Max({1, k + 1 - Len(b)}), Min({k, Len(a)}), 0)]),
                  Tup([k \in 1..(Len(a) + Len(b) - 1) |->
                     ColSum(a, b, k, Max({1, k + 1 - Len(b)}), Min({k, Len(a)}), 1)]))

\* the largest d in lo .. hi with b * d <= r  (b * lo <= r is given)
RECURSIVE BDigit(_, _, _, _)
BDigit(r, b, lo, hi) ==
    IF lo = hi THEN lo
    ELSE IF BCmp(BMul(b, <<hi>>), r) <= 0 THEN hi
    ELSE BDigit(r, b, lo, hi - 1)

\* the estimate of the quotient limb of r1 by b from their top limbs
BEstimate(r1, b) ==
    Min({Base - 1, (At(r1, Len(b) + 1) * Base + At(r1, Len(b))) \div b[Len(b)]})

BDivLimbAt(r1, b, d) == <<d, BSub(r1, BMul(b, <<d>>))>>

\* the next limb of the quotient, <<digit, remainder>> of r1 by b, where
\* r1 < b * Base and the top limb of b is at least Base \div 2: the digit is
\* at most 2 below its estimate
BDivLimb(r1, b) ==
    IF BCmp(r1, b) < 0 THEN <<0, r1>>
    ELSE BDivLimbAt(r1, b,
            BDigit(r1, b, Max({1, BEstimate(r1, b) - 2}), BEstimate(r1, b)))

\* long division, limbs of a from limb i down: <<quotient, remainder>>
RECURSIVE BDivAt(_, _, _, _, _)
RECURSIVE BDivNext(_, _, _, _, _)
\* dr is the limb found at i and what remains; no leading zero limb is kept
BDivNext(a, b, i, q, dr) ==
    IF dr[1] = 0 /\ q = <<>> THEN BDivAt(a, b, i - 1, <<>>, dr[2])
    ELSE BDivAt(a, b, i - 1, <<dr[1]>> \o q, dr[2])

BDivAt(a, b, i, q, r) ==
    IF i = 0 THEN <<BStrip(q), r>>
    ELSE BDivNext(a, b, i, q, BDivLimb(BStrip(<<a[i]>> \o r), b))

\* <<a \div b, a % b>> for b # 0 with a top limb of Base \div 2 at least;
\* the top Len(b) - 1 limbs of a are the first remainder
BDivScaled(a, b) ==
    IF BCmp(a, b) < 0 THEN <<<<>>, a>>
    ELSE BDivAt(a, b, Len(a) - Len(b) + 1, <<>>,
                BStrip(SubSeq(a, Len(a) - Len(b) + 2, Len(a))))

\* <<a \div b, k * (a % b)>> for b # 0, where k brings the top limb of b to
\* Base \div 2 at least
BDiv(a, b) ==
    BDivScaled(BMul(a, <<Base \div (b[Len(b)] + 1)>>),
               BMul(b, <<Base \div (b[Len(b)] + 1)>>))

(***************************************************************************)
(* Rationals [neg, num, den] with den > 0, not reduced: two rationals are  *)
(* compared with QCmp, never with =.  Zero is always 0/1.  A sum takes the *)
(* larger denominator when the smaller one divides it.                     *)
(***************************************************************************)
QMake(neg, n, d) ==
    IF n = <<>> THEN [neg |-> FALSE, num |-> <<>>, den |-> <<1>>]
    ELSE [neg |-> neg, num |-> n, den |-> d]

Q(i) == QMake(i < 0, BFromInt(IF i < 0 THEN -i ELSE i), <<1>>)

QZero == [neg |-> FALSE, num |-> <<>>, den |-> <<1>>]

QOne == [neg |-> FALSE, num |-> <<1>>, den |-> <<1>>]

QIsZero(x) == x.num = <<>>

QNeg(x) == IF QIsZero(x) THEN x ELSE [x EXCEPT !.neg = ~x.neg]

QSign(x) == IF QIsZero(x) THEN 0 ELSE IF x.neg THEN -1 ELSE 1

\* x and y over one denominator, <<numerator of x, numerator of y, denominator>>,
\* for x.den >= y.den and qr = BDiv(x.den, y.den)
QScale(x, y, qr) ==
    <<BMul(x.num, IF qr[2] = <<>> THEN <<1>> ELSE y.den),
      BMul(y.num, IF qr[2] = <<>> THEN qr[1] ELSE x.den),
      BMul(x.den, IF qr[2] = <<>> THEN <<1>> ELSE y.den)>>

QOver(x, y) ==
    IF x.den = y.den THEN <<x.num, y.num, x.den>>
    ELSE QScale(x, y, BDiv(x.den, y.den))

\* the sum of the signed numerators cx and cy over the denominator d
QSum(xneg, cx, yneg, cy, d) ==
    IF xneg = yneg THEN QMake(xneg, BAdd(cx, cy), d)
    ELSE QMake(IF BCmp(cx, cy) >= 0 THEN xneg ELSE yneg,
               BSub(IF BCmp(cx, cy) >= 0 THEN cx ELSE cy,
                    IF BCmp(cx, cy) >= 0 THEN cy ELSE cx), d)

QSumOver(x, y, c) == QSum(x.neg, c[1], y.neg, c[2], c[3])

QAddOrdered(x, y) == QSumOver(x, y, QOver(x, y))

QAdd(x, y) ==
    IF QIsZero(x) THEN y
    ELSE IF QIsZero(y) THEN x
    ELSE QAddOrdered(IF BCmp(x.den, y.den) >= 0 THEN x ELSE y,
                     IF BCmp(x.den, y.den) >= 0 THEN y ELSE x)

QSub(x, y) == QAdd(x, QNeg(y))

QMul(x, y) ==
    IF QIsZero(x) \/ QIsZero(y) THEN QZero
    ELSE QMake(x.neg # y.neg, BMul(x.num, y.num), BMul(x.den, y.den))

\* x / y for y # 0
QDiv(x, y) ==
    IF QIsZero(x) THEN x
    ELSE QMake(x.neg # y.neg, BMul(x.num, y.den), BMul(x.den, y.num))

QCmp(x, y) == QSign(QSub(x, y))

QEq(x, y) == QCmp(x, y) = 0

QLt(x, y) == QCmp(x, y) < 0

QLe(x, y) == QCmp(x, y) <= 0

\* x^n by squaring: h is x^(n \div 2)
RECURSIVE QPow(_, _)
QSquare(x, n, h) ==
    IF QIsZero(h) THEN QZero ELSE QMul(IF n % 2 = 0 THEN QOne ELSE x, QMul(h, h))

QPow(x, n) == IF n = 0 THEN QOne ELSE QSquare(x, n, QPow(x, n \div 2))

(***************************************************************************)
(* Bounds of the model and the inputs the calls are drawn from.            *)
(***************************************************************************)
MaxMonths == 13

MaxYears == 2

MaxUnits == 2

\* principals and loan amounts, in euros
Amounts == {100000 * u : u \in 1..MaxUnits}

\* annual interest rates, in percent: 0, 6, 12
Rates == {Q(0), Q(6), Q(12)}

\* initial repayment rates, in percent per year: none, and one that leaves a
\* balance after one year and repays the loan within two
RepaymentRates == {Q(0), Q(60)}

\* fixed payments handed to the payoff solver and to the payoff date
Payments == {Q(10), Q(1000), Q(6000)}

\* remaining balances handed to the payoff solver
Balances == {Q(0), Q(5000), Q(100000)}

VARIABLES
    fp,                \* side on which the doubles put an exact integer quotient
    pc,                \* where the session is
    call,              \* the call in progress or returned: its name and arguments
    stack,             \* frames of calculate_combined_loan waiting for a loan
    months,            \* locals of the schedule builder that is running
    month,
    monthly_rate,
    monthly_payment,
    balance,           \* index m of the array is element m + 1 of the sequence
    monthly_interest,
    monthly_principal,
    ret,               \* the value the call returned
    payoff             \* the call made with the returned value, and its result

vars == <<fp, pc, call, stack, months, month, monthly_rate, monthly_payment,
          balance, monthly_interest, monthly_principal, ret, payoff>>

locals == <<months, month, monthly_rate, monthly_payment,
            balance, monthly_interest, monthly_principal>>

None == [kind |-> "None"]

\* element m of a numpy array of the program
Idx(arr, m) == arr[m + 1]

\* arr[-1]
Last(arr) == arr[Len(arr)]

\* np.zeros(n)
Zeros(n) == [i \in 1..n |-> QZero]

\* annual_rate / 12 / 100
MonthlyRate(annual_rate) == QDiv(QDiv(annual_rate, Q(12)), Q(100))

(***************************************************************************)
(* calculate_monthly_payment: the value, or the ZeroDivisionError of       *)
(* Python's float division when (1 + monthly_rate)**months is 1.           *)
(***************************************************************************)
\* numerator / denominator of the return expression
PaymentQuotient(numerator, denominator) ==
    IF QIsZero(denominator) THEN [kind |-> "ZeroDivisionError", v |-> QZero]
    ELSE [kind |-> "value", v |-> QDiv(numerator, denominator)]

\* the payment formula without the "- 1" of its denominator
PaymentWithPower_NoMinusOne(principal, rate, power) ==
    PaymentQuotient(QMul(principal, QMul(rate, power)), power)

\* the return expression, power being (1 + monthly_rate)**months
PaymentWithPower(principal, rate, power) ==
    PaymentQuotient(QMul(principal, QMul(rate, power)), QSub(power, QOne))

PaymentWithRate(principal, rate, n) ==
    PaymentWithPower(principal, rate, QPow(QAdd(QOne, rate), n))

calculate_monthly_payment(principal, annual_rate, n) ==
    PaymentWithRate(principal, MonthlyRate(annual_rate), n)

(***************************************************************************)
(* One month of either schedule builder.                                   *)
(***************************************************************************)
Interest(prev, rate) == QMul(prev, rate)

PrincipalPayment(payment, interest) == QSub(payment, interest)

\* a balance that grows by the principal portion
NewBalance_Grows(prev, principal_payment) == QAdd(prev, principal_payment)

NewBalance(prev, principal_payment) == QSub(prev, principal_payment)

\* the three stores of the loop body
StoreMonth(interest, principal_payment) ==
    /\ monthly_interest' = [monthly_interest EXCEPT ![month + 1] = interest]
    /\ monthly_principal' = [monthly_principal EXCEPT ![month + 1] = principal_payment]
    /\ balance' = [balance EXCEPT ![month + 1] =
                      NewBalance(Idx(balance, month - 1), principal_payment)]

StepWithInterest(interest) ==
    StoreMonth(interest, PrincipalPayment(monthly_payment, interest))

ScheduleStep ==
    /\ month <= months
    /\ StepWithInterest(Interest(Idx(balance, month - 1), monthly_rate))
    /\ month' = month + 1
    /\ UNCHANGED <<months, monthly_rate, monthly_payment>>

\* the tuple both builders return
Schedule ==
    [kind |-> "schedule", balance |-> balance, monthly_interest |-> monthly_interest,
     monthly_principal |-> monthly_principal, monthly_payment |-> monthly_payment]

\* the locals before the loop without the store of balance[0]
EnterLoop_NoInitial(amount, rate, payment, n) ==
    /\ months' = n
    /\ month' = 1
    /\ monthly_rate' = rate
    /\ monthly_payment' = payment
    /\ balance' = Zeros(n + 1)
    /\ monthly_interest' = Zeros(n + 1)
    /\ monthly_principal' = Zeros(n + 1)

\* the locals before the loop: arrays of n + 1 zeros, balance[0] = amount
EnterLoop(amount, rate, payment, n) ==
    /\ months' = n
    /\ month' = 1
    /\ monthly_rate' = rate
    /\ monthly_payment' = payment
    /\ balance' = [Zeros(n + 1) EXCEPT ![1] = amount]
    /\ monthly_interest' = Zeros(n + 1)
    /\ monthly_principal' = Zeros(n + 1)

(***************************************************************************)
(* The payoff formula  n = -log(1 - r*P/M) / log(1 + r)  on doubles.       *)
(* LogArgument is the argument of the first logarithm (monthly_payment # 0 *)
(* in every call of the model).  np.log gives nan below 0 and -inf at 0.   *)
(***************************************************************************)
LogArgument(remaining_balance, payment, rate) ==
    QSub(QOne, QDiv(QMul(rate, remaining_balance), payment))

\* np.isnan(numerator): the logarithm of a negative number
NumeratorIsNan(arg) == QSign(arg) < 0

\* the numerator is +inf: minus the logarithm of 0
NumeratorIsInf(arg) == QIsZero(arg)

\* denominator == 0: log(1 + rate) for rate = 0  (no rate of the model is
\* negative, so the denominator is never nan)
DenominatorIsZero(rate) == QIsZero(rate)

\* growth^k * arg >= 1 for growth = 1 + rate, which is
\* k >= -log(arg) / log(1 + rate)
Reaches(arg, growth, k) == QLe(QOne, QMul(QPow(growth, k), arg))

\* the first of k, 2k, 4k, ... that Reaches
RECURSIVE Grow(_, _, _)
Grow(arg, growth, k) == IF Reaches(arg, growth, k) THEN k ELSE Grow(arg, growth, 2 * k)

\* the least k in lo+1 .. hi that Reaches, lo not reaching and hi reaching
RECURSIVE Bisect(_, _, _, _)
Bisect(arg, growth, lo, hi) ==
    IF hi - lo = 1 THEN hi
    ELSE IF Reaches(arg, growth, (lo + hi) \div 2)
    THEN Bisect(arg, growth, lo, (lo + hi) \div 2)
    ELSE Bisect(arg, growth, (lo + hi) \div 2, hi)

CeilBelow(arg, growth, h) == IF h = 1 THEN 1 ELSE Bisect(arg, growth, h \div 2, h)

\* the ceiling of -log(arg) / log(growth) in the reals, 0 < arg, 1 < growth
CeilExact(arg, growth) ==
    IF Reaches(arg, growth, 0) THEN 0 ELSE CeilBelow(arg, growth, Grow(arg, growth, 1))

\* where the quotient is the integer k in the reals, the doubles give k or k + 1
CeilRounded(arg, growth, k) ==
    IF QEq(QMul(QPow(growth, k), arg), QOne) THEN k + fp ELSE k

\* int(np.ceil(numerator / denominator)) for 0 < arg < 1, 1 < growth
CeilQuotient(arg, growth) == CeilRounded(arg, growth, CeilExact(arg, growth))

(***************************************************************************)
(* calculate_full_payoff_period: a number of months, float('inf'), or the  *)
(* OverflowError of int(inf) when the numerator is +inf.                   *)
(***************************************************************************)
PayoffOf(arg, rate) ==
    IF DenominatorIsZero(rate) \/ NumeratorIsNan(arg) THEN [kind |-> "inf", k |-> 0]
    ELSE IF NumeratorIsInf(arg) THEN [kind |-> "OverflowError", k |-> 0]
    ELSE [kind |-> "months", k |-> CeilQuotient(arg, QAdd(QOne, rate))]

PayoffWithRate(remaining_balance, payment, rate) ==
    PayoffOf(LogArgument(remaining_balance, payment, rate), rate)

\* the payoff solver with the annual rate taken per cent but not per month
calculate_full_payoff_period_AnnualRate(remaining_balance, payment, annual_rate) ==
    IF QLe(remaining_balance, QZero) THEN [kind |-> "months", k |-> 0]
    ELSE PayoffWithRate(remaining_balance, payment, QDiv(annual_rate, Q(100)))

calculate_full_payoff_period(remaining_balance, payment, annual_rate) ==
    IF QLe(remaining_balance, QZero) THEN [kind |-> "months", k |-> 0]
    ELSE PayoffWithRate(remaining_balance, payment, MonthlyRate(annual_rate))

(***************************************************************************)
(* calculate_payoff_date: dates are day numbers, timedelta(days = d) adds  *)
(* d.  A date, None, or the OverflowError of int(inf).                     *)
(***************************************************************************)
DaysPerYear == 365

DaysPerMonth == 30

\* the additional months counted from day 0, not from the expected end date
PayoffDateOf_NoEndDate(arg, rate, expected_end_date) ==
    IF DenominatorIsZero(rate) \/ NumeratorIsNan(arg) THEN [kind |-> "None", d |-> 0]
    ELSE IF NumeratorIsInf(arg) THEN [kind |-> "OverflowError", d |-> 0]
    ELSE [kind |-> "date", d |-> DaysPerMonth * CeilQuotient(arg, QAdd(QOne, rate))]

PayoffDateOf(arg, rate, expected_end_date) ==
    IF DenominatorIsZero(rate) \/ NumeratorIsNan(arg) THEN [kind |-> "None", d |-> 0]
    ELSE IF NumeratorIsInf(arg) THEN [kind |-> "OverflowError", d |-> 0]
    ELSE [kind |-> "date",
          d |-> expected_end_date + DaysPerMonth * CeilQuotient(arg, QAdd(QOne, rate))]

PayoffDateWithRate(remaining_balance, payment, rate, expected_end_date) ==
    PayoffDateOf(LogArgument(remaining_balance, payment, rate), rate, expected_end_date)

calculate_payoff_date(bal, payment, annual_rate, start_date, loan_term_years) ==
    IF QLe(Idx(bal, 0), QZero) THEN [kind |-> "date", d |-> start_date]
    ELSE IF QLe(Last(bal), QZero)
    THEN [kind |-> "date", d |-> start_date + DaysPerYear * loan_term_years]
    ELSE PayoffDateWithRate(Last(bal), payment, MonthlyRate(annual_rate),
                            start_date + DaysPerYear * loan_term_years)

(***************************************************************************)
(* calculate_annuity_loan: the payment is the initial repayment plus the   *)
(* first month's interest.  property_value is not read by the function.    *)
(***************************************************************************)
\* the payment without the first month's interest
AnnuityPayment_NoInterest(loan_amount, initial_repayment_rate, annual_rate) ==
    QMul(loan_amount, QDiv(QDiv(initial_repayment_rate, Q(12)), Q(100)))

AnnuityPayment(loan_amount, initial_repayment_rate, annual_rate) ==
    QAdd(QMul(loan_amount, QDiv(QDiv(initial_repayment_rate, Q(12)), Q(100))),
         QMul(loan_amount, MonthlyRate(annual_rate)))

AnnuityEnter(loan_amount, initial_repayment_rate, annual_rate, years) ==
    EnterLoop(loan_amount, MonthlyRate(annual_rate),
              AnnuityPayment(loan_amount, initial_repayment_rate, annual_rate),
              years * 12)

(***************************************************************************)
(* The session: one call of a core function from "ready"; a returned       *)
(* schedule may then be handed to calculate_payoff_date, as main() does.   *)
(***************************************************************************)
Init ==
    /\ fp \in {0, 1}
    /\ pc = "ready"
    /\ call = None
    /\ stack = <<>>
    /\ months = 0
    /\ month = 0
    /\ monthly_rate = QZero
    /\ monthly_payment = QZero
    /\ balance = <<>>
    /\ monthly_interest = <<>>
    /\ monthly_principal = <<>>
    /\ ret = None
    /\ payoff = None

MonthlyPaymentCall(principal, annual_rate, n) ==
    /\ pc = "ready"
    /\ call' = [fn |-> "calculate_monthly_payment", principal |-> principal,
                annual_rate |-> annual_rate, months |-> n]
    /\ ret' = calculate_monthly_payment(principal, annual_rate, n)
    /\ pc' = "done"
    /\ UNCHANGED <<fp, stack, locals, payoff>>

\* the calls whose answer is at most MaxPayoff months
MaxPayoff == 40

BoundedOf(arg, growth) == QSign(arg) <= 0 \/ Reaches(arg, growth, MaxPayoff)

BoundedWithRate(remaining_balance, payment, rate) ==
    \/ QIsZero(rate)
    \/ BoundedOf(LogArgument(remaining_balance, payment, rate), QAdd(QOne, rate))

\* the payment is positive and the answer is at most MaxPayoff months
PayoffBounded(remaining_balance, payment, annual_rate) ==
    /\ QSign(payment) > 0
    /\ \/ QSign(remaining_balance) <= 0
       \/ BoundedWithRate(remaining_balance, payment, MonthlyRate(annual_rate))

PayoffPeriodCall(remaining_balance, payment, annual_rate) ==
    /\ pc = "ready"
    /\ PayoffBounded(remaining_balance, payment, annual_rate)
    /\ call' = [fn |-> "calculate_full_payoff_period",
                remaining_balance |-> remaining_balance,
                monthly_payment |-> payment, annual_rate |-> annual_rate]
    /\ ret' = calculate_full_payoff_period(remaining_balance, payment, annual_rate)
    /\ pc' = "done"
    /\ UNCHANGED <<fp, stack, locals, payoff>>

\* the locals before the loop, payment being what calculate_monthly_payment
\* returned or raised
AmortizationEnter(principal, annual_rate, n, payment) ==
    IF payment.kind = "value"
    THEN /\ EnterLoop(principal, MonthlyRate(annual_rate), payment.v, n)
         /\ pc' = "amortization_loop"
         /\ ret' = ret
    ELSE /\ ret' = payment
         /\ pc' = "done"
         /\ UNCHANGED locals

\* calculate_amortization_schedule up to its loop; the exception of the
\* payment solver ends the call
AmortizationBegin(principal, annual_rate, n) ==
    /\ pc = "ready"
    /\ call' = [fn |-> "calculate_amortization_schedule", principal |-> principal,
                annual_rate |-> annual_rate, months |-> n]
    /\ AmortizationEnter(principal, annual_rate, n,
                         calculate_monthly_payment(principal, annual_rate, n))
    /\ UNCHANGED <<fp, stack, payoff>>

AmortizationStep ==
    /\ pc = "amortization_loop"
    /\ ScheduleStep
    /\ UNCHANGED <<fp, pc, call, stack, ret, payoff>>

AmortizationReturn ==
    /\ pc = "amortization_loop"
    /\ month > months
    /\ ret' = Schedule
    /\ pc' = "done"
    /\ UNCHANGED <<fp, call, stack, locals, payoff>>

AnnuityBegin(loan_amount, initial_repayment_rate, annual_rate, years) ==
    /\ pc = "ready"
    /\ call' = [fn |-> "calculate_annuity_loan", loan_amount |-> loan_amount,
                initial_repayment_rate |-> initial_repayment_rate,
                annual_rate |-> annual_rate, years |-> years]
    /\ AnnuityEnter(loan_amount, initial_repayment_rate, annual_rate, years)
    /\ pc' = "annuity_loop"
    /\ UNCHANGED <<fp, stack, ret, payoff>>

AnnuityStep ==
    /\ pc = "annuity_loop"
    /\ ScheduleStep
    /\ UNCHANGED <<fp, pc, call, stack, ret, payoff>>

\* the return to the caller of the session
AnnuityReturn ==
    /\ pc = "annuity_loop"
    /\ month > months
    /\ stack = <<>>
    /\ ret' = Schedule
    /\ pc' = "done"
    /\ UNCHANGED <<fp, call, stack, locals, payoff>>

\* calculate_combined_loan calls calculate_annuity_loan for the KFW loan
CombinedBegin(kfw_loan_amount, kfw_initial_repayment, kfw_interest_rate, kfw_years, bank_loan_amount, bank_initial_repayment, bank_interest_rate, bank_years) ==
    /\ pc = "ready"
    /\ call' = [fn |-> "calculate_combined_loan",
                kfw  |-> [loan_amount |-> kfw_loan_amount,
                          initial_repayment_rate |-> kfw_initial_repayment,
                          annual_rate |-> kfw_interest_rate, years |-> kfw_years],
                bank |-> [loan_amount |-> bank_loan_amount,
                          initial_repayment_rate |-> bank_initial_repayment,
                          annual_rate |-> bank_interest_rate, years |-> bank_years]]
    /\ stack' = <<[at |-> "kfw", kfw |-> None, bank |-> None]>>
    /\ AnnuityEnter(kfw_loan_amount, kfw_initial_repayment, kfw_interest_rate, kfw_years)
    /\ pc' = "annuity_loop"
    /\ UNCHANGED <<fp, ret, payoff>>

\* calculate_annuity_loan returns into calculate_combined_loan
AnnuityReturnToCombined ==
    /\ pc = "annuity_loop"
    /\ month > months
    /\ stack # <<>>
    /\ IF stack[1].at = "kfw"
       THEN /\ stack' = <<[stack[1] EXCEPT !.kfw = Schedule]>>
            /\ pc' = "combined_bank"
       ELSE /\ stack' = <<[stack[1] EXCEPT !.bank = Schedule]>>
            /\ pc' = "combined_sum"
    /\ UNCHANGED <<fp, call, locals, ret, payoff>>

\* the second call made with the term of the KFW loan
CombinedCallBank_KfwYears ==
    /\ pc = "combined_bank"
    /\ stack' = <<[stack[1] EXCEPT !.at = "bank"]>>
    /\ AnnuityEnter(call.bank.loan_amount, call.bank.initial_repayment_rate,
                    call.bank.annual_rate, call.kfw.years)
    /\ pc' = "annuity_loop"
    /\ UNCHANGED <<fp, call, ret, payoff>>

\* the second call, for the bank loan
CombinedCallBank ==
    /\ pc = "combined_bank"
    /\ stack' = <<[stack[1] EXCEPT !.at = "bank"]>>
    /\ AnnuityEnter(call.bank.loan_amount, call.bank.initial_repayment_rate,
                    call.bank.annual_rate, call.bank.years)
    /\ pc' = "annuity_loop"
    /\ UNCHANGED <<fp, call, ret, payoff>>

\* the dictionary calculate_combined_loan returns
CombinedResult(kfw, kfw_years, bank, bank_years) ==
    [kind |-> "combined",
     kfw  |-> [balance |-> kfw.balance, monthly_interest |-> kfw.monthly_interest,
               monthly_principal |-> kfw.monthly_principal,
               monthly_payment |-> kfw.monthly_payment, years |-> kfw_years],
     bank |-> [balance |-> bank.balance, monthly_interest |-> bank.monthly_interest,
               monthly_principal |-> bank.monthly_principal,
               monthly_payment |-> bank.monthly_payment, years |-> bank_years],
     total_monthly_payment |-> QAdd(kfw.monthly_payment, bank.monthly_payment)]

CombinedReturn ==
    /\ pc = "combined_sum"
    /\ ret' = CombinedResult(stack[1].kfw, call.kfw.years, stack[1].bank, call.bank.years)
    /\ stack' = <<>>
    /\ pc' = "done"
    /\ UNCHANGED <<fp, call, locals, payoff>>

\* the schedules a returned value holds
ReturnedSchedules ==
    IF ret.kind = "schedule" THEN {ret}
    ELSE IF ret.kind = "combined" THEN {ret.kfw, ret.bank}
    ELSE {}

\* the payoff solver on the payment calculate_monthly_payment returned
PayoffOfPaymentCall ==
    /\ pc = "done"
    /\ call.fn = "calculate_monthly_payment"
    /\ ret.kind = "value"
    /\ PayoffBounded(call.principal, ret.v, call.annual_rate)
    /\ payoff' = [fn |-> "calculate_full_payoff_period",
                  remaining_balance |-> call.principal, monthly_payment |-> ret.v,
                  annual_rate |-> call.annual_rate,
                  result |-> calculate_full_payoff_period(call.principal, ret.v,
                                                          call.annual_rate)]
    /\ pc' = "solved"
    /\ UNCHANGED <<fp, call, stack, locals, ret>>

PayoffDateCall(sched, payment, annual_rate, start_date, loan_term_years) ==
    /\ pc = "done"
    /\ PayoffBounded(Last(sched.balance), payment, annual_rate)
    /\ payoff' = [fn |-> "calculate_payoff_date",
                  balance |-> sched.balance, monthly_payment |-> payment,
                  annual_rate |-> annual_rate, start_date |-> start_date,
                  loan_term_years |-> loan_term_years,
                  result |-> calculate_payoff_date(sched.balance, payment, annual_rate,
                                                   start_date, loan_term_years)]
    /\ pc' = "dated"
    /\ UNCHANGED <<fp, call, stack, locals, ret>>

\* the loans of the combined calculation
KfwRepayments == {Q(60)}

KfwRates == {Q(12)}

BankRepayments == {Q(0)}

BankRates == {Q(6)}

\* start dates, as day numbers
StartDates == {100}

Next ==
    \/ \E p \in Amounts, a \in Rates, n \in 1..MaxMonths :
          MonthlyPaymentCall(Q(p), a, n)
    \/ \E b \in Balances, m \in Payments, a \in Rates : PayoffPeriodCall(b, m, a)
    \/ \E p \in Amounts, a \in Rates, n \in 1..MaxMonths :
          AmortizationBegin(Q(p), a, n)
    \/ AmortizationStep
    \/ AmortizationReturn
    \/ \E p \in Amounts, i \in RepaymentRates, a \in Rates, y \in 1..MaxYears :
          AnnuityBegin(Q(p), i, a, y)
    \/ AnnuityStep
    \/ AnnuityReturn
    \/ \E ki \in KfwRepayments, ka \in KfwRates, ky \in 1..MaxYears,
          bp \in Amounts, bi \in BankRepayments, ba \in BankRates, by \in 1..MaxYears :
          CombinedBegin(Q(100000), ki, ka, ky, Q(bp), bi, ba, by)
    \/ AnnuityReturnToCombined
    \/ CombinedCallBank
    \/ CombinedReturn
    \/ PayoffOfPaymentCall
    \/ \E sched \in ReturnedSchedules, a \in Rates, d \in StartDates, y \in 1..MaxYears :
          \E m \in {sched.monthly_payment, Q(10)} :
             PayoffDateCall(sched, m, a, d, y)

Spec == Init /\ [][Next]_vars

(***************************************************************************)
(* The claims.  A schedule builder has returned when pc = "done" and ret   *)
(* is a schedule; call holds the arguments it was called with.             *)
(***************************************************************************)
ScheduleReturned == pc = "done" /\ ret.kind = "schedule"

\* the amount and the term of the call that built the returned schedule
CalledAmount ==
    IF call.fn = "calculate_annuity_loan" THEN call.loan_amount ELSE call.principal

CalledMonths ==
    IF call.fn = "calculate_annuity_loan" THEN call.years * 12 ELSE call.months

MonthHolds(sched, rate, m) ==
    /\ QEq(Idx(sched.monthly_interest, m), QMul(Idx(sched.balance, m - 1), rate))
    /\ QEq(QAdd(Idx(sched.monthly_interest, m), Idx(sched.monthly_principal, m)),
           sched.monthly_payment)
    /\ QEq(Idx(sched.balance, m),
           QSub(Idx(sched.balance, m - 1), Idx(sched.monthly_principal, m)))

\* C1: in every schedule calculate_amortization_schedule or
\* calculate_annuity_loan returns, for every month m in 1..months the interest
\* is balance[m-1] * monthly_rate, interest plus principal portion is the one
\* returned monthly_payment, and balance[m] is balance[m-1] minus the
\* principal portion.
C1_Recurrence ==
    ScheduleReturned =>
        \A m \in 1..CalledMonths : MonthHolds(ret, MonthlyRate(call.annual_rate), m)

\* a returned schedule of a year or more that still bears interest in month 12
C1_Witness ==
    /\ ScheduleReturned
    /\ CalledMonths >= 12
    /\ QSign(Idx(ret.monthly_interest, 12)) > 0
    /\ QSign(Idx(ret.monthly_principal, 12)) > 0

\* the calls C2 speaks of: principal > 0, 0 < annual_rate <= 15, months >= 12
InAmortizedRange ==
    /\ QSign(call.principal) > 0
    /\ QSign(call.annual_rate) > 0
    /\ QLe(call.annual_rate, Q(15))
    /\ call.months >= 12

C3_Shape ==
    ScheduleReturned =>
        /\ Len(ret.balance) = CalledMonths + 1
        /\ Len(ret.monthly_interest) = CalledMonths + 1
        /\ Len(ret.monthly_principal) = CalledMonths + 1
        /\ QEq(Idx(ret.balance, 0), CalledAmount)
        /\ QIsZero(Idx(ret.monthly_interest, 0))
        /\ QIsZero(Idx(ret.monthly_principal, 0))

\* calculate_annuity_loan has returned the 13 entries of a one-year loan
C3_Witness ==
    /\ ScheduleReturned
    /\ call.fn = "calculate_annuity_loan"
    /\ call.years = 1
    /\ Len(ret.balance) = 13
    /\ QSign(Idx(ret.balance, 0)) > 0


\* C4: with annual_rate 0, calculate_monthly_payment(principal, 0, months)
\* returns principal / months and raises no division by zero.
C4_ZeroRatePayment ==
    (pc = "done" /\ call.fn = "calculate_monthly_payment" /\ QIsZero(call.annual_rate))
        => (ret.kind = "value" /\ QEq(ret.v, QDiv(call.principal, Q(call.months))))

\* calculate_monthly_payment was called with rate 0 and raised ZeroDivisionError
C4_Witness ==
    /\ pc = "done"
    /\ call.fn = "calculate_monthly_payment"
    /\ QIsZero(call.annual_rate)
    /\ ret.kind = "ZeroDivisionError"

\* a call of calculate_full_payoff_period with positive balance and payment
PayoffPeriodReturned ==
    /\ pc = "done"
    /\ call.fn = "calculate_full_payoff_period"
    /\ QSign(call.remaining_balance) > 0
    /\ QSign(call.monthly_payment) > 0

\* r * remaining_balance / monthly_payment of the call
InterestShare ==
    QDiv(QMul(MonthlyRate(call.annual_rate), call.remaining_balance), call.monthly_payment)

\* C5: for remaining_balance > 0, monthly_payment > 0 and a monthly rate
\* r > 0 with r * remaining_balance / monthly_payment >= 1, equality included,
\* calculate_full_payoff_period returns the sentinel float('inf') and raises
\* no exception.
C5_Unpayable ==
    (PayoffPeriodReturned /\ QSign(call.annual_rate) > 0 /\ QLe(QOne, InterestShare))
        => ret.kind = "inf"

\* the payment equals the monthly interest and the call raised OverflowError
C5_Witness ==
    /\ PayoffPeriodReturned
    /\ QSign(call.annual_rate) > 0
    /\ QEq(InterestShare, QOne)
    /\ ret.kind = "OverflowError"

\* C6: with annual_rate 0, calculate_full_payoff_period(B, M, 0) for B > 0 and
\* M > 0 returns ceil(B / M) months: the integer k with k - 1 < B / M <= k.
C6_ZeroRatePayoff ==
    (PayoffPeriodReturned /\ QIsZero(call.annual_rate))
        => /\ ret.kind = "months"
           /\ QLe(QDiv(call.remaining_balance, call.monthly_payment), Q(ret.k))
           /\ QLt(Q(ret.k - 1), QDiv(call.remaining_balance, call.monthly_payment))

\* the payoff solver was called with rate 0 and returned float('inf')
C6_Witness ==
    /\ PayoffPeriodReturned
    /\ QIsZero(call.annual_rate)
    /\ ret.kind = "inf"

\* the fixed payment of the returned schedule is at most some month's interest
PaymentWithinInterest ==
    \E m \in 1..CalledMonths : QLe(ret.monthly_payment, Idx(ret.monthly_interest, m))

\* the returned value carries a NegativeAmortization condition: it is not the
\* plain schedule, or it has a field that flags it
NegativeAmortizationFlag(r) ==
    r.kind = "NegativeAmortization" \/ "negative_amortization" \in DOMAIN r

\* C7: when at some month of a schedule the fixed payment is at most that
\* month's interest, what the schedule builder returns carries a distinct
\* NegativeAmortization condition.
C7_NegativeAmortizationFlagged ==
    (ScheduleReturned /\ PaymentWithinInterest) => NegativeAmortizationFlag(ret)

\* a plain schedule was returned whose balance never shrinks under a positive
\* interest rate
C7_Witness ==
    /\ ScheduleReturned
    /\ QSign(call.annual_rate) > 0
    /\ PaymentWithinInterest
    /\ \A m \in 1..CalledMonths : QLe(Idx(ret.balance, m - 1), Idx(ret.balance, m))

\* calculate_annuity_loan as a function of its arguments: the loop from
\* month m on
RECURSIVE AnnuityFrom(_, _, _)
AnnuityStored(sched, m, interest, principal_payment) ==
    [sched EXCEPT !.balance[m + 1] = NewBalance(Idx(sched.balance, m - 1), principal_payment),
                  !.monthly_interest[m + 1] = interest,
                  !.monthly_principal[m + 1] = principal_payment]

AnnuityMonth(sched, m, interest) ==
    AnnuityStored(sched, m, interest, PrincipalPayment(sched.monthly_payment, interest))

AnnuityFrom(sched, rate, m) ==
    IF m >= Len(sched.balance) THEN sched
    ELSE AnnuityFrom(AnnuityMonth(sched, m, Interest(Idx(sched.balance, m - 1), rate)),
                     rate, m + 1)

AnnuityAlone(loan) ==
    AnnuityFrom([kind |-> "schedule",
                 balance |-> [Zeros(loan.years * 12 + 1) EXCEPT ![1] = loan.loan_amount],
                 monthly_interest |-> Zeros(loan.years * 12 + 1),
                 monthly_principal |-> Zeros(loan.years * 12 + 1),
                 monthly_payment |-> AnnuityPayment(loan.loan_amount,
                                        loan.initial_repayment_rate, loan.annual_rate)],
                MonthlyRate(loan.annual_rate), 1)

SameArray(a, b) == Len(a) = Len(b) /\ \A i \in 1..Len(a) : QEq(a[i], b[i])

\* the part of the combined result for one loan is the schedule alone
SameSchedule(part, alone) ==
    /\ SameArray(part.balance, alone.balance)
    /\ SameArray(part.monthly_interest, alone.monthly_interest)
    /\ SameArray(part.monthly_principal, alone.monthly_principal)
    /\ QEq(part.monthly_payment, alone.monthly_payment)

\* C8: calculate_combined_loan returns a KFW schedule of kfw_years * 12 + 1
\* entries and a bank schedule of bank_years * 12 + 1 entries, each the
\* schedule calculate_annuity_loan returns for that loan alone, and a
\* total_monthly_payment that is the sum of the two monthly payments.
C8_CombinedIndependent ==
    (pc = "done" /\ ret.kind = "combined")
        => /\ Len(ret.kfw.balance) = call.kfw.years * 12 + 1
           /\ Len(ret.bank.balance) = call.bank.years * 12 + 1
           /\ SameSchedule(ret.kfw, AnnuityAlone(call.kfw))
           /\ SameSchedule(ret.bank, AnnuityAlone(call.bank))
           /\ QEq(ret.total_monthly_payment,
                  QAdd(ret.kfw.monthly_payment, ret.bank.monthly_payment))

\* a combined result of two loans with different amounts and payments
C8_Witness ==
    /\ pc = "done"
    /\ ret.kind = "combined"
    /\ ~QEq(call.kfw.loan_amount, call.bank.loan_amount)
    /\ QLt(ret.bank.monthly_payment, ret.kfw.monthly_payment)
    /\ QLt(ret.kfw.monthly_payment, ret.total_monthly_payment)

PayoffDateAgrees(period) ==
    /\ QSign(Last(payoff.balance)) <= 0
         => payoff.result = [kind |-> "date",
                             d |-> payoff.start_date + 365 * payoff.loan_term_years]
    /\ (QSign(Last(payoff.balance)) > 0 /\ period.kind = "months")
         => payoff.result = [kind |-> "date",
                             d |-> payoff.start_date + 365 * payoff.loan_term_years
                                   + 30 * period.k]
    /\ payoff.result.kind = "None" <=> period.kind = "inf"

\* C10: for a schedule with balance[0] > 0, calculate_payoff_date returns
\* start_date + 365 * loan_term_years days if the terminal balance is <= 0,
\* that date plus 30 * k days if it is > 0 and calculate_full_payoff_period
\* returns k months for it, and None exactly when calculate_full_payoff_period
\* returns float('inf').
C10_PayoffDate ==
    (pc = "dated" /\ QSign(Idx(payoff.balance, 0)) > 0)
        => PayoffDateAgrees(calculate_full_payoff_period(Last(payoff.balance),
                               payoff.monthly_payment, payoff.annual_rate))

\* a date some months after the expected end of the term was returned
C10_Witness ==
    /\ pc = "dated"
    /\ QSign(Last(payoff.balance)) > 0
    /\ payoff.result.kind = "date"
    /\ payoff.result.d > payoff.start_date + 365 * payoff.loan_term_years + 30

\* a call of a core function with an argument C11 calls invalid: amount or
\* term not positive, or annual rate outside (0, 100]
InvalidInput ==
    /\ call.fn \in {"calculate_monthly_payment", "calculate_amortization_schedule",
                    "calculate_annuity_loan"}
    /\ \/ QSign(CalledAmount) <= 0
       \/ CalledMonths <= 0
       \/ QSign(call.annual_rate) <= 0
       \/ QLt(Q(100), call.annual_rate)

\* C11: a core function called with a non-positive principal, a non-positive
\* term or an annual rate outside (0, 100] returns a defined InvalidInput
\* value, and neither raises a division by zero nor returns a schedule
\* computed from the invalid arguments.
C11_InvalidInputRejected ==
    (pc = "done" /\ InvalidInput) => ret.kind = "InvalidInput"

\* calculate_annuity_loan was called with rate 0 and returned a schedule
C11_Witness ==
    /\ pc = "done"
    /\ call.fn = "calculate_annuity_loan"
    /\ InvalidInput
    /\ QIsZero(call.annual_rate)
    /\ ret.kind = "schedule"
    /\ Len(ret.balance) = call.years * 12 + 1

\* C12: in every schedule calculate_amortization_schedule or
\* calculate_annuity_loan returns, balance[m] >= 0 for every m < months: a
\* balance that has reached zero before the end of the term is not paid
\* further down into the negative.
C12_BalanceNonNegative ==
    ScheduleReturned => \A m \in 0..(CalledMonths - 1) : QSign(Idx(ret.balance, m)) >= 0

\* a returned schedule whose balance is negative before the last month and
\* lower still in the month after
C12_Witness ==
    /\ ScheduleReturned
    /\ \E m \in 1..(CalledMonths - 1) :
          /\ QSign(Idx(ret.balance, m)) < 0
          /\ QLt(Idx(ret.balance, m + 1), Idx(ret.balance, m))

\* calculate_annuity_loan has returned for loan_amount > 0,
\* initial_repayment_rate > 0 and annual_rate > 0
RepayingAnnuityReturned ==
    /\ ScheduleReturned
    /\ call.fn = "calculate_annuity_loan"
    /\ QSign(call.loan_amount) > 0
    /\ QSign(call.initial_repayment_rate) > 0
    /\ QSign(call.annual_rate) > 0

\* loan_amount * (initial_repayment_rate / 1200)
InitialRepayment == QMul(call.loan_amount, QDiv(call.initial_repayment_rate, Q(1200)))

\* month m of the returned schedule against the month before it
RepayingMonth(m) ==
    /\ QLt(Idx(ret.balance, m), Idx(ret.balance, m - 1))
    /\ QLe(InitialRepayment, Idx(ret.monthly_principal, m))
    /\ m >= 2 => /\ QLe(Idx(ret.monthly_principal, m - 1), Idx(ret.monthly_principal, m))
                 /\ QLe(Idx(ret.monthly_interest, m), Idx(ret.monthly_interest, m - 1))

\* C13: for calculate_annuity_loan with loan_amount, initial_repayment_rate
\* and annual_rate all positive, the payment is
\* loan_amount * (initial_repayment_rate / 1200) + loan_amount * (annual_rate / 1200),
\* and in every month m of 1..years*12 the balance is below that of the month
\* before, the principal portion is at least
\* loan_amount * (initial_repayment_rate / 1200), the principal portion does
\* not decrease and the interest does not increase from month to month.
C13_AnnuityMonotone ==
    RepayingAnnuityReturned =>
        /\ QEq(ret.monthly_payment,
               QAdd(InitialRepayment, QMul(call.loan_amount, QDiv(call.annual_rate, Q(1200)))))
        /\ \A m \in 1..(call.years * 12) : RepayingMonth(m)

\* a two-year repaying loan whose principal portion has grown and whose
\* interest has fallen by the last month
C13_Witness ==
    /\ RepayingAnnuityReturned
    /\ call.years = 2
    /\ QLt(Idx(ret.monthly_principal, 1), Idx(ret.monthly_principal, 24))
    /\ QLt(Idx(ret.monthly_interest, 24), Idx(ret.monthly_interest, 1))

====
